---- MODULE Spec2Model ----
(***************************************************************************)
(* The REST layer of the D&D companion server (server/routes.ts) over the  *)
(* in-memory store (server/storage.ts, class MemStorage) and the insert    *)
(* schemas of shared/schema.ts.                                            *)
(*                                                                         *)
(* Every route handler is an async function.  A handler runs up to its     *)
(* next `await` in one step; at an `await` other requests may run.  A call *)
(* of an async storage method runs the method's body up to the method's    *)
(* own first `await` at the moment of the call.  A continuation that only  *)
(* sends what the handler already holds (res.json of a value returned by   *)
(* the storage call just made) reads and writes nothing shared, so it is   *)
(* part of the step that made the call.  Each request in flight occupies   *)
(* one slot of `req`, whose pc names the await it is parked at.            *)
(***************************************************************************)
EXTENDS Integers, Sequences, FiniteSets, TLC

VARIABLES journals,     \* MemStorage.journals : Map<number, Journal>
          entities,     \* MemStorage.entities : Map<number, Entity>
          journalId,    \* MemStorage.journalId
          entityId,     \* MemStorage.entityId
          users,        \* ids of the rows of the `users` table
          sessionUser,  \* session cookie -> id of the logged-in user, or NoUser
          destroyed,    \* session cookies whose session was terminated
          now,          \* the wall clock read by `new Date()`
          received,     \* number of requests received so far
          req,          \* the requests in flight and their responses
          password,     \* the password field of the registration form
          registerForm, \* what became of the registration form
          content,      \* the markdown in the editor of the journal page
          title,        \* the title the journal page derived on submit, if any
          location,     \* the path the browser shows
          userQuery,    \* the ["/api/user"] query of AuthProvider
          loginMutation,  \* loginMutation of AuthProvider
          logoutMutation, \* logoutMutation of AuthProvider
          deleteMutation, \* deleteMutation of AccountSettings
          entityQuery,    \* the [`/api/entities/${id}`] query of EntityView
          updateMutation, \* the PATCH requests of EntityView on their way
          editValue,      \* editValue of each EditableField of EntityView
          saves           \* number of inline edits saved so far

vars == <<journals, entities, journalId, entityId, users, sessionUser, destroyed, now, received, req,
          password, registerForm, content, title,
          location, userQuery, loginMutation, logoutMutation, deleteMutation,
          entityQuery, updateMutation, editValue, saves>>
server == <<journals, entities, journalId, entityId, users, sessionUser, destroyed, now, received, req>>
registration == <<password, registerForm>>
editor == <<content, title>>
app == <<location, userQuery, loginMutation, logoutMutation, deleteMutation>>
view == <<entityQuery, updateMutation, editValue, saves>>
client == <<registration, editor, app, view>>
store == <<journals, entities, journalId, entityId>>
auth == <<users, sessionUser, destroyed>>

(***************************************************************************)
(* Bounds and input sets                                                   *)
(***************************************************************************)
MaxId == 2                        \* creates stop once a counter has passed MaxId
MaxRequests == 3                  \* requests the server receives in a run
Users == {1, 2}                   \* registered accounts
NoUser == 0
Sessions == {"s1", "s2"}          \* session cookies
LoggedIn == [c \in {"s1"} |-> 1]  \* the sessions established when the run starts
Slots == {1, 2}                   \* requests that can be in flight together
MaxPassword == 8                  \* characters the password field takes
Chars == {"A", "a", "1"}          \* one character of each class of the policy
MaxContent == 5                   \* characters the editor takes
Markdown == {"#", " ", "\n", "x"}  \* heading marker, blank, line break, text
Ids == {1, 2}                     \* ids a request can address

(***************************************************************************)
(* shared/schema.ts                                                        *)
(***************************************************************************)
entityTypes == {"npc", "creature", "location", "organization"}

\* JSON scalars are written as strings; the members of JsonNumbers stand for
\* JSON numbers, so that a body can carry a value of the wrong type.
JsonNumbers == {"<42>"}
IsString(v) == v \notin JsonNumbers
IsStringArray(v) == \A i \in 1..Len(v) : IsString(v[i])

JournalKeys == {"title", "content", "tags"}
EntityKeys == {"name", "type", "description", "properties", "tags"}

\* the per-field rules of the insert schemas
JournalFieldOk(k, v) ==
    CASE k = "title" -> IsString(v)
      [] k = "content" -> IsString(v)
      [] k = "tags" -> IsStringArray(v)
      [] OTHER -> TRUE

\* the entity rules with `type` as a plain text column
EntityFieldOk_anyType(k, v) ==
    CASE k = "name" -> IsString(v)
      [] k = "type" -> IsString(v)
      [] k = "description" -> IsString(v)
      [] k = "properties" -> TRUE
      [] k = "tags" -> IsStringArray(v)
      [] OTHER -> TRUE

EntityFieldOk(k, v) ==
    CASE k = "name" -> IsString(v)
      [] k = "type" -> v \in entityTypes
      [] k = "description" -> IsString(v)
      [] k = "properties" -> TRUE
      [] k = "tags" -> IsStringArray(v)
      [] OTHER -> TRUE

\* a schema that passes unknown keys through
Strip_passthrough(body, keys) == body

\* zod objects drop the keys the schema does not name
Strip(body, keys) == [k \in (DOMAIN body) \cap keys |-> body[k]]

\* insertJournalSchema.safeParse(body).success and .data
insertJournalSchema_success(body) ==
    /\ JournalKeys \subseteq DOMAIN body
    /\ \A k \in JournalKeys : JournalFieldOk(k, body[k])
insertJournalSchema_data(body) == Strip(body, JournalKeys)

\* insertJournalSchema.partial().safeParse(body).success
insertJournalSchema_partial_success(body) ==
    \A k \in (DOMAIN body) \cap JournalKeys : JournalFieldOk(k, body[k])

insertEntitySchema_success(body) ==
    /\ EntityKeys \subseteq DOMAIN body
    /\ \A k \in EntityKeys : EntityFieldOk(k, body[k])
insertEntitySchema_data(body) == Strip(body, EntityKeys)

\* a partial schema that accepts every body
insertEntitySchema_partial_acceptAll(body) == TRUE

\* insertEntitySchema.partial().safeParse(body).success
insertEntitySchema_partial_success(body) ==
    \A k \in (DOMAIN body) \cap EntityKeys : EntityFieldOk(k, body[k])

\* insertUserSchema of shared/schema.ts, the module the pages import as
\* @shared/schema: `password` is a text column, so any string passes
insertUserSchema_password(p) == \A i \in 1..Len(p) : IsString(p[i])

\* the `password` rule of the insertUserSchema variant with validation rules:
\* .min(8), /[A-Z]/, /[a-z]/, /[0-9]/
insertUserSchema_password_rules(p) ==
    /\ Len(p) >= 8
    /\ \E i \in 1..Len(p) : p[i] \in {"A"}
    /\ \E i \in 1..Len(p) : p[i] \in {"a"}
    /\ \E i \in 1..Len(p) : p[i] \in {"1"}

(***************************************************************************)
(* Request bodies the clients send                                         *)
(***************************************************************************)
NoBody == <<>>
J1 == [title |-> "Hello", content |-> "# Hello", tags |-> <<>>]
\* bodies of POST /api/journals: well-formed, naming server-assigned fields,
\* without a title, with a number for the title
JournalBodies ==
    { J1,
      [title |-> "Hello", content |-> "# Hello", tags |-> <<>>,
       id |-> 3, userId |-> 2, created |-> 2],
      [content |-> "# Hello", tags |-> <<>>],
      [title |-> "<42>", content |-> "# Hello", tags |-> <<>>] }
\* bodies of PATCH /api/journals/:id: empty, a new title together with
\* server-assigned fields, a number for the title
JournalPatches ==
    { NoBody,
      [title |-> "Notes", id |-> 3, userId |-> 2, created |-> 2],
      [title |-> "<42>"] }

\* an npc whose `organization` property holds the id of another entity
E1 == [name |-> "Mira", type |-> "npc", description |-> "",
       properties |-> [race |-> "elf", organization |-> "2"], tags |-> <<>>]
\* bodies of POST /api/entities: well-formed, naming server-assigned fields,
\* without a name, with a type outside the enum
EntityBodies ==
    { E1,
      [name |-> "Mira", type |-> "npc", description |-> "",
       properties |-> [race |-> "elf", organization |-> "2"], tags |-> <<>>,
       id |-> 3, userId |-> 2, created |-> 2],
      [type |-> "npc", description |-> "", properties |-> [race |-> "elf", organization |-> "2"],
       tags |-> <<>>],
      [name |-> "Mira", type |-> "dragon", description |-> "",
       properties |-> [race |-> "elf", organization |-> "2"], tags |-> <<>>] }
\* bodies of PATCH /api/entities/:id: empty, a new type and a new properties
\* map together with server-assigned fields, a type outside the enum
EntityPatches ==
    { NoBody,
      [type |-> "creature", properties |-> [class |-> "bard"],
       id |-> 3, userId |-> 2, created |-> 2],
      [type |-> "dragon"] }

TypeQueries == {"", "npc"}   \* ?type= of GET /api/entities ("" = absent)

(***************************************************************************)
(* server/storage.ts : MemStorage                                          *)
(***************************************************************************)
\* { ...a, ...b }
Spread(a, b) == [k \in (DOMAIN a) \cup (DOMAIN b) |-> IF k \in DOMAIN b THEN b[k] ELSE a[k]]

\* Map.get : the record under id as a set of at most one element (undefined = {})
MapGet(m, id) == IF id \in DOMAIN m THEN {m[id]} ELSE {}
\* a set that drops the entries under the other keys
MapSet_only(m, id, r) == [i \in {id} |-> r]

\* Map.set
MapSet(m, id, r) == [i \in (DOMAIN m) \cup {id} |-> IF i = id THEN r ELSE m[i]]
\* Map.delete
MapDelete(m, id) == [i \in (DOMAIN m) \ {id} |-> m[i]]
\* Array.from(Map.values()), as the set of its elements
MapValues(m) == {m[i] : i \in DOMAIN m}

\* getJournals() takes no parameter: an argument passed by a caller is dropped
getJournals(ownerId) == MapValues(journals)

getJournal(id) == MapGet(journals, id)

\* createJournal with `++this.journalId` in place of `this.journalId++`
createJournal_record_preIncrement(journal, t) ==
    Spread(journal, [id |-> journalId + 1, created |-> t])

\* the record createJournal builds for the insertable `journal` at instant t
createJournal_record(journal, t) == Spread(journal, [id |-> journalId, created |-> t])

\* the value of a variable that holds a record or undefined, as spread sees it
Fields(rec) == IF rec = {} THEN <<>> ELSE CHOOSE x \in rec : TRUE

\* if (!existing) throw new Error("Journal not found")
updateJournal_notFound(existing) == existing = {}

\* updateJournal storing the payload alone
updateJournal_record_payloadOnly(existing, journal) == journal

\* { ...existing, ...journal } of updateJournal
updateJournal_record(existing, journal) == Spread(Fields(existing), journal)

\* deleteJournal that deletes nothing
deleteJournal_noop(m, id) == m

\* this.journals.delete(id)
deleteJournal(m, id) == MapDelete(m, id)

\* getEntities(type?) : a second argument passed by a caller is dropped
getEntities(type, ownerId) ==
    IF type # "" THEN {e \in MapValues(entities) : e.type = type}
    ELSE MapValues(entities)

getEntity(id) == MapGet(entities, id)

createEntity_record(entity, t) == Spread(entity, [id |-> entityId, created |-> t])

\* if (!existing) throw new Error("Entity not found")
updateEntity_notFound(existing) == existing = {}

\* updateEntity merging the old and the new `properties` key by key
updateEntity_record_deepMerge(existing, entity) ==
    LET old == Fields(existing)
        shallow == Spread(old, entity)
    IN IF "properties" \in (DOMAIN old) \cap (DOMAIN entity)
       THEN [shallow EXCEPT !.properties = Spread(old.properties, entity.properties)]
       ELSE shallow

\* { ...existing, ...entity } of updateEntity
updateEntity_record(existing, entity) == Spread(Fields(existing), entity)

\* String(id): an id as the forms of the pages store it in `properties`
IdString(id) == IF id \in 1..5 THEN <<"1", "2", "3", "4", "5">>[id] ELSE "0"

\* deleteEntity that also removes the entities whose `organization` is the id
deleteEntity_cascade(m, id) ==
    [i \in {j \in DOMAIN m : /\ j # id
                             /\ ~(/\ "organization" \in DOMAIN m[j].properties
                                   /\ m[j].properties.organization = IdString(id))} |-> m[i]]

\* deleteEntity that deletes nothing
deleteEntity_noop(m, id) == m

\* this.entities.delete(id)
deleteEntity(m, id) == MapDelete(m, id)

\* the POST routes handing result.data alone to create
withOwner_dataOnly(data, userId) == data

\* { ...result.data, userId: req.user.id } : what the POST routes hand to create
withOwner(data, userId) == Spread(data, [userId |-> userId])

\* new Date() : the instant of the call; the clock has moved on by the next call
Date_new(t) == t = now

(***************************************************************************)
(* server/auth.ts (passport session), as the routes use it                 *)
(***************************************************************************)
\* req.isAuthenticated()
isAuthenticated(c) == sessionUser[c] # NoUser
\* req.user.id
user_id(c) == sessionUser[c]

(***************************************************************************)
(* Requests                                                                *)
(***************************************************************************)
Idle == [pc |-> "idle", kind |-> "none", sess |-> "none", user |-> NoUser,
         id |-> 0, type |-> "", body |-> NoBody, data |-> NoBody,
         rec |-> {}, existing |-> {}, list |-> {},
         calls |-> <<>>, status |-> 0, resp |-> {}, alone |-> TRUE]

\* A response, once sent, is handed to the client (Deliver) before the server
\* takes its next step: the slot of a request that is over holds its response
\* for that one state.
Quiet == \A s \in DOMAIN req : req[s].pc \notin {"done", "lost"}
\* a new request takes the first slot that is idle
Free(s) ==
    /\ Quiet
    /\ received < MaxRequests
    /\ req[s].pc = "idle"
    /\ \A s2 \in DOMAIN req : s2 < s => req[s2].pc # "idle"
At(s, kind, pc) == Quiet /\ req[s].kind = kind /\ req[s].pc = pc

InFlight(r) == r.pc \notin {"idle", "done", "lost"}

\* the request as the handler sees it on entry; `alone` records that no other
\* request of the same user has been in flight together with this one
Arrive(kind, c, id, type, body) ==
    [Idle EXCEPT !.kind = kind, !.sess = c, !.user = user_id(c),
                 !.id = id, !.type = type, !.body = body,
                 !.alone = \A t \in DOMAIN req :
                               ~(InFlight(req[t]) /\ req[t].user = user_id(c))]

\* the requests once r has arrived in slot s
Admit(s, r) ==
    [t \in DOMAIN req |->
        IF t = s THEN r
        ELSE IF InFlight(req[t]) /\ req[t].user = r.user
             THEN [req[t] EXCEPT !.alone = FALSE]
             ELSE req[t]]

\* res.status(st).json(body) / res.sendStatus(st) / res.json(body)
\* the handler returns: its locals are gone, the response is out; `calls`
\* keeps the storage methods the handler called
Respond(r, st, body) ==
    [Idle EXCEPT !.pc = "done", !.kind = r.kind, !.sess = r.sess, !.user = r.user,
                 !.id = r.id, !.type = r.type, !.body = r.body, !.alone = r.alone,
                 !.calls = r.calls, !.status = st, !.resp = body]

\* the authentication gate left out
Unauthenticated_never(c) == FALSE

\* if (!req.isAuthenticated()) return res.sendStatus(401)
Unauthenticated(c) == ~isAuthenticated(c)

\* the existence check left out
NotFound_never(rec) == FALSE

\* if (!journal) : the record read is undefined
NotFound(rec) == rec = {}

\* the ownership gate left out
AccessDenied_never(rec, r) == FALSE

\* the ownership gate with === in place of !==
AccessDenied_inverted(rec, r) == \E record \in rec : record.userId = r.user

\* if (journal.userId !== req.user.id) : the ownership gate
AccessDenied(rec, r) == \E record \in rec : record.userId # r.user

(***************************************************************************)
(* server/routes.ts : journals                                             *)
(***************************************************************************)
\* app.get("/api/journals"): getJournals reads the map when it is called, and
\* res.json(journals) sends what it read
GetJournals(s, c) ==
    /\ Free(s)
    /\ received' = received + 1
    /\ LET r == Arrive("GET /api/journals", c, 0, "", NoBody) IN
       req' = Admit(s,
                  IF Unauthenticated(c) THEN Respond(r, 401, {})
                  ELSE Respond([r EXCEPT !.calls = <<"getJournals">>],
                               200, getJournals(r.user)))
    /\ UNCHANGED <<store, auth, now>>
    /\ UNCHANGED client

\* app.get("/api/journals/:id"): getJournal reads the map when it is called; the 404
\* and 403 checks and res.json(journal) use what it read
GetJournal(s, c, i) ==
    /\ Free(s)
    /\ received' = received + 1
    /\ LET r == Arrive("GET /api/journals/:id", c, i, "", NoBody)
           read == [r EXCEPT !.calls = <<"getJournal">>]
           rec == getJournal(i)
       IN
       req' = Admit(s,
                  IF Unauthenticated(c) THEN Respond(r, 401, {})
                  ELSE IF NotFound(rec) THEN Respond(read, 404, {})
                  ELSE IF AccessDenied(rec, read) THEN Respond(read, 403, {})
                  ELSE Respond(read, 200, rec))
    /\ UNCHANGED <<store, auth, now>>
    /\ UNCHANGED client

\* app.post("/api/journals"): createJournal has no await of its own, so the record is
\* stored by the call, and res.json(journal) sends the record it returned
PostJournal(s, c, b) ==
    /\ Free(s)
    /\ received' = received + 1
    /\ LET r == Arrive("POST /api/journals", c, 0, "", b) IN
       \/ /\ Unauthenticated(c)
          /\ req' = Admit(s, Respond(r, 401, {}))
          /\ UNCHANGED <<store, now>>
       \/ /\ ~Unauthenticated(c)
          /\ ~insertJournalSchema_success(b)
          /\ req' = Admit(s, Respond(r, 400, {}))
          /\ UNCHANGED <<store, now>>
       \/ /\ ~Unauthenticated(c)
          /\ insertJournalSchema_success(b)
          /\ journalId <= MaxId
          /\ \E t \in {now} :
               /\ Date_new(t)
               /\ LET data == insertJournalSchema_data(b)
                      newJournal == createJournal_record(
                                        withOwner(data, r.user), t)
                  IN /\ journals' = MapSet(journals, journalId, newJournal)
                     /\ journalId' = journalId + 1
                     /\ now' = t + 1
                     /\ req' = Admit(s,
                                  Respond([r EXCEPT !.calls = <<"createJournal">>],
                                          200, {newJournal}))
          /\ UNCHANGED <<entities, entityId>>
    /\ UNCHANGED auth
    /\ UNCHANGED client

\* app.patch("/api/journals/:id") up to `await storage.getJournal(id)`
PatchJournal(s, c, i, b) ==
    /\ Free(s)
    /\ received' = received + 1
    /\ LET r == Arrive("PATCH /api/journals/:id", c, i, "", b) IN
       req' = Admit(s,
                  IF Unauthenticated(c) THEN Respond(r, 401, {})
                  ELSE IF ~insertJournalSchema_partial_success(b)
                       THEN Respond(r, 400, {})
                  ELSE [r EXCEPT !.pc = "gate", !.data = insertJournalSchema_data(b),
                                 !.rec = getJournal(i),
                                 !.calls = <<"getJournal">>])
    /\ UNCHANGED <<store, auth, now>>
    /\ UNCHANGED client

\* the 404 and 403 checks, then the call of storage.updateJournal, which runs
\* up to its `await this.getJournal(id)`
PatchJournal_gate(s) ==
    /\ At(s, "PATCH /api/journals/:id", "gate")
    /\ LET r == req[s] IN
       req' = [req EXCEPT ![s] =
                  IF NotFound(r.rec) THEN Respond(r, 404, {})
                  ELSE IF AccessDenied(r.rec, r) THEN Respond(r, 403, {})
                  ELSE [r EXCEPT !.pc = "update", !.existing = getJournal(r.id),
                                 !.calls = Append(@, "updateJournal")]]
    /\ UNCHANGED <<store, auth, now, received>>
    /\ UNCHANGED client

\* updateJournal after its await: throw (caught by the handler, 404) or
\* this.journals.set(id, updated), and res.json(updatedJournal) sends the record set
PatchJournal_update(s) ==
    /\ At(s, "PATCH /api/journals/:id", "update")
    /\ LET r == req[s] IN
       IF updateJournal_notFound(r.existing)
       THEN /\ req' = [req EXCEPT ![s] = Respond(r, 404, {})]
            /\ UNCHANGED journals
       ELSE LET updated == updateJournal_record(r.existing, r.data) IN
            /\ journals' = MapSet(journals, r.id, updated)
            /\ req' = [req EXCEPT ![s] = Respond(r, 200, {updated})]
    /\ UNCHANGED <<entities, journalId, entityId, auth, now, received>>
    /\ UNCHANGED client

\* app.delete("/api/journals/:id") up to `await storage.getJournal(id)`
DeleteJournal(s, c, i) ==
    /\ Free(s)
    /\ received' = received + 1
    /\ LET r == Arrive("DELETE /api/journals/:id", c, i, "", NoBody) IN
       req' = Admit(s,
                  IF Unauthenticated(c) THEN Respond(r, 401, {})
                  ELSE [r EXCEPT !.pc = "gate", !.rec = getJournal(i),
                                 !.calls = <<"getJournal">>])
    /\ UNCHANGED <<store, auth, now>>
    /\ UNCHANGED client

\* the 404 and 403 checks, then storage.deleteJournal(id), which deletes at the
\* call, and res.status(204).end()
DeleteJournal_gate(s) ==
    /\ At(s, "DELETE /api/journals/:id", "gate")
    /\ LET r == req[s] IN
       IF NotFound(r.rec)
       THEN /\ req' = [req EXCEPT ![s] = Respond(r, 404, {})]
            /\ UNCHANGED journals
       ELSE IF AccessDenied(r.rec, r)
       THEN /\ req' = [req EXCEPT ![s] = Respond(r, 403, {})]
            /\ UNCHANGED journals
       ELSE /\ journals' = deleteJournal(journals, r.id)
            /\ req' = [req EXCEPT ![s] =
                          Respond([r EXCEPT !.calls = Append(@, "deleteJournal")], 204, {})]
    /\ UNCHANGED <<entities, journalId, entityId, auth, now, received>>
    /\ UNCHANGED client

(***************************************************************************)
(* server/routes.ts : entities                                             *)
(***************************************************************************)
\* app.get("/api/entities"): getEntities reads the map when it is called, and
\* res.json(entities) sends what it read
GetEntities(s, c, type) ==
    /\ Free(s)
    /\ received' = received + 1
    /\ LET r == Arrive("GET /api/entities", c, 0, type, NoBody) IN
       req' = Admit(s,
                  IF Unauthenticated(c) THEN Respond(r, 401, {})
                  ELSE Respond([r EXCEPT !.calls = <<"getEntities">>],
                               200, getEntities(r.type, r.user)))
    /\ UNCHANGED <<store, auth, now>>
    /\ UNCHANGED client

\* app.get("/api/entities/:id"): getEntity reads the map when it is called; the 404
\* and 403 checks and res.json(entity) use what it read
GetEntity(s, c, i) ==
    /\ Free(s)
    /\ received' = received + 1
    /\ LET r == Arrive("GET /api/entities/:id", c, i, "", NoBody)
           read == [r EXCEPT !.calls = <<"getEntity">>]
           rec == getEntity(i)
       IN
       req' = Admit(s,
                  IF Unauthenticated(c) THEN Respond(r, 401, {})
                  ELSE IF NotFound(rec) THEN Respond(read, 404, {})
                  ELSE IF AccessDenied(rec, read) THEN Respond(read, 403, {})
                  ELSE Respond(read, 200, rec))
    /\ UNCHANGED <<store, auth, now>>
    /\ UNCHANGED client

\* app.post("/api/entities"): createEntity has no await of its own, so the record is
\* stored by the call, and res.json(entity) sends the record it returned
PostEntity(s, c, b) ==
    /\ Free(s)
    /\ received' = received + 1
    /\ LET r == Arrive("POST /api/entities", c, 0, "", b) IN
       \/ /\ Unauthenticated(c)
          /\ req' = Admit(s, Respond(r, 401, {}))
          /\ UNCHANGED <<store, now>>
       \/ /\ ~Unauthenticated(c)
          /\ ~insertEntitySchema_success(b)
          /\ req' = Admit(s, Respond(r, 400, {}))
          /\ UNCHANGED <<store, now>>
       \/ /\ ~Unauthenticated(c)
          /\ insertEntitySchema_success(b)
          /\ entityId <= MaxId
          /\ \E t \in {now} :
               /\ Date_new(t)
               /\ LET data == insertEntitySchema_data(b)
                      newEntity == createEntity_record(
                                        withOwner(data, r.user), t)
                  IN /\ entities' = MapSet(entities, entityId, newEntity)
                     /\ entityId' = entityId + 1
                     /\ now' = t + 1
                     /\ req' = Admit(s,
                                  Respond([r EXCEPT !.calls = <<"createEntity">>],
                                          200, {newEntity}))
          /\ UNCHANGED <<journals, journalId>>
    /\ UNCHANGED auth
    /\ UNCHANGED client

\* app.patch("/api/entities/:id") up to `await storage.getEntity(id)`
PatchEntity(s, c, i, b) ==
    /\ Free(s)
    /\ received' = received + 1
    /\ LET r == Arrive("PATCH /api/entities/:id", c, i, "", b) IN
       req' = Admit(s,
                  IF Unauthenticated(c) THEN Respond(r, 401, {})
                  ELSE IF ~insertEntitySchema_partial_success(b)
                       THEN Respond(r, 400, {})
                  ELSE [r EXCEPT !.pc = "gate", !.data = insertEntitySchema_data(b),
                                 !.rec = getEntity(i),
                                 !.calls = <<"getEntity">>])
    /\ UNCHANGED <<store, auth, now>>
    /\ UNCHANGED client

\* the 404 and 403 checks, then the call of storage.updateEntity, which runs
\* up to its `await this.getEntity(id)`
PatchEntity_gate(s) ==
    /\ At(s, "PATCH /api/entities/:id", "gate")
    /\ LET r == req[s] IN
       req' = [req EXCEPT ![s] =
                  IF NotFound(r.rec) THEN Respond(r, 404, {})
                  ELSE IF AccessDenied(r.rec, r) THEN Respond(r, 403, {})
                  ELSE [r EXCEPT !.pc = "update", !.existing = getEntity(r.id),
                                 !.calls = Append(@, "updateEntity")]]
    /\ UNCHANGED <<store, auth, now, received>>
    /\ UNCHANGED client

\* updateEntity after its await: throw (caught by the handler, 404) or
\* this.entities.set(id, updated), and res.json(updatedEntity) sends the record set
PatchEntity_update(s) ==
    /\ At(s, "PATCH /api/entities/:id", "update")
    /\ LET r == req[s] IN
       IF updateEntity_notFound(r.existing)
       THEN /\ req' = [req EXCEPT ![s] = Respond(r, 404, {})]
            /\ UNCHANGED entities
       ELSE LET updated == updateEntity_record(r.existing, r.data) IN
            /\ entities' = MapSet(entities, r.id, updated)
            /\ req' = [req EXCEPT ![s] = Respond(r, 200, {updated})]
    /\ UNCHANGED <<journals, journalId, entityId, auth, now, received>>
    /\ UNCHANGED client

\* app.delete("/api/entities/:id") up to `await storage.getEntity(id)`
DeleteEntity(s, c, i) ==
    /\ Free(s)
    /\ received' = received + 1
    /\ LET r == Arrive("DELETE /api/entities/:id", c, i, "", NoBody) IN
       req' = Admit(s,
                  IF Unauthenticated(c) THEN Respond(r, 401, {})
                  ELSE [r EXCEPT !.pc = "gate", !.rec = getEntity(i),
                                 !.calls = <<"getEntity">>])
    /\ UNCHANGED <<store, auth, now>>
    /\ UNCHANGED client

\* the 404 and 403 checks, then storage.deleteEntity(id), which deletes at the
\* call, and res.status(204).end()
DeleteEntity_gate(s) ==
    /\ At(s, "DELETE /api/entities/:id", "gate")
    /\ LET r == req[s] IN
       IF NotFound(r.rec)
       THEN /\ req' = [req EXCEPT ![s] = Respond(r, 404, {})]
            /\ UNCHANGED entities
       ELSE IF AccessDenied(r.rec, r)
       THEN /\ req' = [req EXCEPT ![s] = Respond(r, 403, {})]
            /\ UNCHANGED entities
       ELSE /\ entities' = deleteEntity(entities, r.id)
            /\ req' = [req EXCEPT ![s] =
                          Respond([r EXCEPT !.calls = Append(@, "deleteEntity")], 204, {})]
    /\ UNCHANGED <<journals, journalId, entityId, auth, now, received>>
    /\ UNCHANGED client


(***************************************************************************)
(* server/routes.ts : account deletion                                     *)
(***************************************************************************)
\* journals.map(journal => storage.deleteJournal(journal.id)) : every call
\* deletes when it is made, before Promise.all is awaited
RECURSIVE deleteJournals(_, _)
deleteJournals(m, records) ==
    IF records = {} THEN m
    ELSE LET r == CHOOSE x \in records : TRUE
         IN deleteJournals(deleteJournal(m, r.id), records \ {r})

RECURSIVE deleteEntities(_, _)
deleteEntities(m, records) ==
    IF records = {} THEN m
    ELSE LET r == CHOOSE x \in records : TRUE
         IN deleteEntities(deleteEntity(m, r.id), records \ {r})

\* app.delete("/api/user") up to `await storage.getJournals(req.user.id)`
DeleteUser(s, c) ==
    /\ Free(s)
    /\ received' = received + 1
    /\ LET r == Arrive("DELETE /api/user", c, 0, "", NoBody) IN
       req' = Admit(s,
                  IF Unauthenticated(c) THEN Respond(r, 401, {})
                  ELSE [r EXCEPT !.pc = "journals", !.list = getJournals(r.user),
                                 !.calls = <<"getJournals">>])
    /\ UNCHANGED <<store, auth, now>>
    /\ UNCHANGED client

\* up to `await Promise.all(journals.map(...deleteJournal...))`
DeleteUser_journals(s) ==
    /\ At(s, "DELETE /api/user", "journals")
    /\ journals' = deleteJournals(journals, req[s].list)
    /\ req' = [req EXCEPT ![s] = [@ EXCEPT !.pc = "journalsDeleted",
                                           !.calls = Append(@, "deleteJournal*")]]
    /\ UNCHANGED <<entities, journalId, entityId, auth, now, received>>
    /\ UNCHANGED client

\* up to `await storage.getEntities(undefined, req.user.id)`
DeleteUser_entities(s) ==
    /\ At(s, "DELETE /api/user", "journalsDeleted")
    /\ req' = [req EXCEPT ![s] = [@ EXCEPT !.pc = "entities",
                                           !.list = getEntities("", @.user),
                                           !.calls = Append(@, "getEntities")]]
    /\ UNCHANGED <<store, auth, now, received>>
    /\ UNCHANGED client

\* up to `await Promise.all(entities.map(...deleteEntity...))`
DeleteUser_entitiesDelete(s) ==
    /\ At(s, "DELETE /api/user", "entities")
    /\ entities' = deleteEntities(entities, req[s].list)
    /\ req' = [req EXCEPT ![s] = [@ EXCEPT !.pc = "entitiesDeleted",
                                           !.calls = Append(@, "deleteEntity*")]]
    /\ UNCHANGED <<journals, journalId, entityId, auth, now, received>>
    /\ UNCHANGED client

\* req.logout(callback) of server/auth.ts: the session ends and the callback
\* answers 200; or logout reports an error and the callback throws, inside
\* the try block (500) when it is called at once, outside it (no response)
\* when it is called later
DeleteUser_logout(s) ==
    /\ At(s, "DELETE /api/user", "entitiesDeleted")
    /\ \/ /\ sessionUser' = [sessionUser EXCEPT ![req[s].sess] = NoUser]
          /\ destroyed' = destroyed \cup {req[s].sess}
          /\ UNCHANGED users
          /\ req' = [req EXCEPT ![s] = Respond(@, 200, {})]
       \/ /\ req' = [req EXCEPT ![s] = Respond(@, 500, {})]
          /\ UNCHANGED auth
       \/ /\ req' = [req EXCEPT ![s] = [@ EXCEPT !.pc = "lost"]]
          /\ UNCHANGED auth
    /\ UNCHANGED <<store, now, received>>
    /\ UNCHANGED client

(***************************************************************************)
(* server/auth.ts : login or registration establishes the session          *)
(***************************************************************************)
Login(c, u) ==
    /\ Quiet
    /\ sessionUser[c] = NoUser
    /\ c \notin destroyed
    /\ u \in users
    /\ sessionUser' = [sessionUser EXCEPT ![c] = u]
    /\ UNCHANGED <<store, users, destroyed, now, received, req>>
    /\ UNCHANGED client

\* the client takes the response (or gives up on a request never answered)
Deliver(s) ==
    /\ req[s].pc \in {"done", "lost"}
    /\ req' = [req EXCEPT ![s] = Idle]
    /\ UNCHANGED <<store, auth, now, received>>
    /\ UNCHANGED client

(***************************************************************************)
(* The system                                                              *)
(***************************************************************************)
ServerInit ==
    /\ journals = <<>>
    /\ entities = <<>>
    /\ journalId = 1
    /\ entityId = 1
    /\ users = Users
    /\ sessionUser = [c \in Sessions |-> IF c \in DOMAIN LoggedIn THEN LoggedIn[c] ELSE NoUser]
    /\ destroyed = {}
    /\ now = 1
    /\ received = 0
    /\ req = [s \in Slots |-> Idle]

ClientInit ==
    /\ password = <<>>
    /\ registerForm = "untouched"
    /\ content = <<>>
    /\ title = {}
    /\ location = "/"
    /\ userQuery = [status |-> "pending", data |-> {}, fetching |-> TRUE]
    /\ loginMutation = [status |-> "idle", user |-> NoUser]
    /\ logoutMutation = [status |-> "idle"]
    /\ deleteMutation = [status |-> "idle"]
    /\ entityQuery = {}
    /\ updateMutation = <<>>
    /\ editValue = <<>>
    /\ saves = 0

Init == ServerInit /\ ClientInit

Next ==
    \/ \E c \in Sessions, u \in Users : Login(c, u)
    \/ \E s \in Slots, c \in Sessions : GetJournals(s, c)
    \/ \E s \in Slots, c \in Sessions, i \in Ids : GetJournal(s, c, i)
    \/ \E s \in Slots, c \in Sessions, b \in JournalBodies : PostJournal(s, c, b)
    \/ \E s \in Slots, c \in Sessions, i \in Ids, b \in JournalPatches : PatchJournal(s, c, i, b)
    \/ \E s \in Slots : PatchJournal_gate(s)
    \/ \E s \in Slots : PatchJournal_update(s)
    \/ \E s \in Slots, c \in Sessions, i \in Ids : DeleteJournal(s, c, i)
    \/ \E s \in Slots : DeleteJournal_gate(s)
    \/ \E s \in Slots, c \in Sessions, t \in TypeQueries : GetEntities(s, c, t)
    \/ \E s \in Slots, c \in Sessions, i \in Ids : GetEntity(s, c, i)
    \/ \E s \in Slots, c \in Sessions, b \in EntityBodies : PostEntity(s, c, b)
    \/ \E s \in Slots, c \in Sessions, i \in Ids, b \in EntityPatches : PatchEntity(s, c, i, b)
    \/ \E s \in Slots : PatchEntity_gate(s)
    \/ \E s \in Slots : PatchEntity_update(s)
    \/ \E s \in Slots, c \in Sessions, i \in Ids : DeleteEntity(s, c, i)
    \/ \E s \in Slots : DeleteEntity_gate(s)
    \/ \E s \in Slots, c \in Sessions : DeleteUser(s, c)
    \/ \E s \in Slots : DeleteUser_journals(s)
    \/ \E s \in Slots : DeleteUser_entities(s)
    \/ \E s \in Slots : DeleteUser_entitiesDelete(s)
    \/ \E s \in Slots : DeleteUser_logout(s)
    \/ \E s \in Slots : Deliver(s)

Spec == Init /\ [][Next]_vars

(***************************************************************************)
(* client/src/pages/JournalEntry.tsx : the title of a journal              *)
(***************************************************************************)
SetMax(S) == CHOOSE x \in S : \A y \in S : y <= x
SetMin(S) == CHOOSE x \in S : \A y \in S : x <= y

\* \s of a regular expression and the characters String.trim removes
Whitespace == {" ", "\n"}
Untitled == <<"Untitled Entry">>

\* ^ under the m flag: position i starts a line
LineStart(c, i) == i = 1 \/ c[i - 1] = "\n"
\* the longest run of characters of `set` that starts at position i
Run(c, i, set) ==
    SetMax({k \in 0..(Len(c) - i + 1) : \A d \in 0..(k - 1) : c[i + d] \in set})
\* the last position of the line that position q is on (. matches no line
\* break, $ under the m flag is the end of a line)
LineEnd(c, q) == q + Run(c, q, Markdown \ {"\n"}) - 1

\* where group 2 of /^(#{1,6})\s+(.+)$/m starts when the match starts at i:
\* #{1,6} must take the whole run of # (what follows it must be \s), \s+ is
\* greedy and gives back until a character that . matches follows it
Group2Starts(c, i) ==
    LET h == Run(c, i, {"#"})
        w == Run(c, i + h, Whitespace)
    IN IF h \in 1..6
       THEN {q \in (i + h + 1)..(i + h + w) : q <= Len(c) /\ c[q] # "\n"}
       ELSE {}

\* String.prototype.trim
trim(t) ==
    LET keep == {k \in 1..Len(t) : t[k] \notin Whitespace}
    IN IF keep = {} THEN <<>> ELSE SubSeq(t, SetMin(keep), SetMax(keep))

\* extractTitle: markdown.match(...) finds the leftmost match
extractTitle(markdown) ==
    LET starts == {i \in 1..Len(markdown) :
                      LineStart(markdown, i) /\ Group2Starts(markdown, i) # {}}
    IN IF starts = {} THEN Untitled
       ELSE LET q == SetMax(Group2Starts(markdown, SetMin(starts)))
            IN trim(SubSeq(markdown, q, LineEnd(markdown, q)))

\* the user types a character into the editor
TypeContent(ch) ==
    /\ Len(content) < MaxContent
    /\ content' = Append(content, ch)
    /\ title' = {}
    /\ UNCHANGED <<server, registration, app, view>>

\* createMutation / updateMutation: title: extractTitle(data.content)
SubmitJournal ==
    /\ title = {}
    /\ title' = {extractTitle(content)}
    /\ UNCHANGED <<content, server, registration, app, view>>

EditorNext ==
    \/ \E ch \in Markdown : TypeContent(ch)
    \/ SubmitJournal

EditorSpec == Init /\ [][EditorNext]_vars

(***************************************************************************)
(* client/src/App.tsx, hooks/use-auth.tsx, lib/protected-route.tsx,        *)
(* components/ui/header.tsx : the pages behind the authentication state    *)
(***************************************************************************)
Browser == "s1"    \* the session cookie the browser sends
ProtectedPaths == {"/", "/journal/:id", "/category/:type", "/entity/:type/:id",
                   "/entity/:type/:id/edit"}
\* <Link href="/account"> of the header: the page of AccountSettings
AccountPath == "/account"
Paths == ProtectedPaths \cup {"/auth", AccountPath}

\* useAuth(): isLoading of the query, and user: user ?? null (a set of at
\* most one element, null = {})
isLoading == userQuery.status = "pending" /\ userQuery.fetching
user == userQuery.data

\* ProtectedRoute without the `if (!user)` branch
ProtectedRoute_noUserCheck(path) ==
    IF isLoading THEN "Loader2" ELSE "Component"

\* ProtectedRoute: what the route at `path` renders
ProtectedRoute(path) ==
    IF isLoading THEN "Loader2"
    ELSE IF user = {} THEN "Redirect"
    ELSE "Component"

\* the query function of ["/api/user"] answers: the user of the session, or
\* null on 401 (on401: "returnNull")
UserQuery_resolve ==
    /\ userQuery.fetching
    /\ userQuery' = [status |-> "success",
                     data |-> IF sessionUser[Browser] # NoUser
                              THEN {sessionUser[Browser]} ELSE {},
                     fetching |-> FALSE]
    /\ UNCHANGED <<server, view, registration, editor, location, loginMutation, logoutMutation,
                   deleteMutation>>

\* the query function throws (a status other than 401, or no answer): a
\* query that holds no data ends in error, one that holds data keeps it
UserQuery_error ==
    /\ userQuery.fetching
    /\ userQuery' = [userQuery EXCEPT !.fetching = FALSE,
                                      !.status = IF @ = "pending" THEN "error" ELSE @]
    /\ UNCHANGED <<server, view, registration, editor, location, loginMutation, logoutMutation,
                   deleteMutation>>

\* the user follows a link or enters a path
Navigate(path) ==
    /\ location # path
    /\ location' = path
    /\ UNCHANGED <<server, view, registration, editor, userQuery, loginMutation, logoutMutation,
                   deleteMutation>>

\* <Redirect to="/auth" /> rendered by the route the browser shows
Redirect ==
    /\ location \in ProtectedPaths
    /\ ProtectedRoute(location) = "Redirect"
    /\ location' = "/auth"
    /\ UNCHANGED <<server, view, registration, editor, userQuery, loginMutation, logoutMutation,
                   deleteMutation>>

\* AuthPage: useEffect(() => { if (user) setLocation("/") })
AuthPage_effect ==
    /\ location = "/auth"
    /\ user # {}
    /\ location' = "/"
    /\ UNCHANGED <<server, view, registration, editor, userQuery, loginMutation, logoutMutation,
                   deleteMutation>>

\* loginMutation.mutate(credentials) from the login form of the auth page
Login_mutate(u) ==
    /\ location = "/auth"
    /\ loginMutation.status # "pending"
    /\ loginMutation' = [status |-> "pending", user |-> u]
    /\ UNCHANGED <<server, view, registration, editor, location, userQuery, logoutMutation,
                   deleteMutation>>

\* POST /api/login answers: the session is established and onSuccess puts the
\* user into the query; or the request fails and onError shows a toast
Login_settle ==
    /\ loginMutation.status = "pending"
    /\ \/ /\ sessionUser' = [sessionUser EXCEPT ![Browser] = loginMutation.user]
          /\ userQuery' = [userQuery EXCEPT !.status = "success",
                                            !.data = {loginMutation.user}]
          /\ loginMutation' = [loginMutation EXCEPT !.status = "success"]
       \/ /\ loginMutation' = [loginMutation EXCEPT !.status = "error"]
          /\ UNCHANGED <<sessionUser, userQuery>>
    /\ UNCHANGED <<store, users, destroyed, now, received, req, view, registration,
                   editor,
                   location, logoutMutation, deleteMutation>>

\* Header: handleLogout, offered while a user is shown
Logout_mutate ==
    /\ user # {}
    /\ logoutMutation.status # "pending"
    /\ logoutMutation' = [status |-> "pending"]
    /\ UNCHANGED <<server, view, registration, editor, location, userQuery, loginMutation,
                   deleteMutation>>

\* POST /api/logout answers: the session is over and onSuccess puts null into
\* the query; or the request fails and onError shows a toast
Logout_settle ==
    /\ logoutMutation.status = "pending"
    /\ \/ /\ sessionUser' = [sessionUser EXCEPT ![Browser] = NoUser]
          /\ userQuery' = [userQuery EXCEPT !.status = "success", !.data = {}]
          /\ logoutMutation' = [status |-> "success"]
       \/ /\ logoutMutation' = [status |-> "error"]
          /\ UNCHANGED <<sessionUser, userQuery>>
    /\ UNCHANGED <<store, users, destroyed, now, received, req, view, registration,
                   editor,
                   location, loginMutation, deleteMutation>>

\* AccountSettings: the Delete Account button, deleteMutation.mutate()
DeleteAccount_mutate ==
    /\ location = AccountPath
    /\ deleteMutation.status # "pending"
    /\ deleteMutation' = [status |-> "pending"]
    /\ UNCHANGED <<server, view, registration, editor, location, userQuery, loginMutation,
                   logoutMutation>>

\* DELETE /api/user answers 200: the session is over, and onSuccess shows a
\* toast and calls setLocation("/auth"); or apiRequest throws (401 without a
\* session, 500, no answer) and onError shows a toast
DeleteAccount_settle ==
    /\ deleteMutation.status = "pending"
    /\ \/ /\ ~Unauthenticated(Browser)
          /\ sessionUser' = [sessionUser EXCEPT ![Browser] = NoUser]
          /\ deleteMutation' = [status |-> "success"]
          /\ location' = "/auth"
       \/ /\ deleteMutation' = [status |-> "error"]
          /\ UNCHANGED <<sessionUser, location>>
    /\ UNCHANGED <<store, users, destroyed, now, received, req, view, registration,
                   editor,
                   userQuery, loginMutation, logoutMutation>>

\* the page is loaded anew: the query and the mutations start over
Reload ==
    /\ userQuery' = [status |-> "pending", data |-> {}, fetching |-> TRUE]
    /\ loginMutation' = [status |-> "idle", user |-> NoUser]
    /\ logoutMutation' = [status |-> "idle"]
    /\ deleteMutation' = [status |-> "idle"]
    /\ UNCHANGED <<server, view, registration, editor, location>>

AppNext ==
    \/ UserQuery_resolve
    \/ UserQuery_error
    \/ \E path \in Paths : Navigate(path)
    \/ Redirect
    \/ AuthPage_effect
    \/ \E u \in Users : Login_mutate(u)
    \/ Login_settle
    \/ Logout_mutate
    \/ Logout_settle
    \/ DeleteAccount_mutate
    \/ DeleteAccount_settle
    \/ Reload

AppSpec == Init /\ [][AppNext]_vars

(***************************************************************************)
(* The registration form of the auth page                                  *)
(***************************************************************************)
\* the user types a character into the password field
TypePassword(ch) ==
    /\ Len(password) < MaxPassword
    /\ password' = Append(password, ch)
    /\ registerForm' = "editing"
    /\ UNCHANGED <<server, editor, app, view>>

\* the user erases the last character
ErasePassword ==
    /\ password # <<>>
    /\ password' = SubSeq(password, 1, Len(password) - 1)
    /\ registerForm' = "editing"
    /\ UNCHANGED <<server, editor, app, view>>

\* registerForm.handleSubmit: the resolver runs insertUserSchema over the
\* fields (a field never touched is undefined); on success
\* registerMutation.mutate(data) posts the registration
SubmitRegister ==
    /\ registerForm \in {"untouched", "editing"}
    /\ registerForm' = IF registerForm = "editing" /\ insertUserSchema_password(password)
                       THEN "submitted"
                       ELSE "invalid"
    /\ UNCHANGED <<password, server, editor, app, view>>

RegisterNext ==
    \/ \E ch \in Chars : TypePassword(ch)
    \/ ErasePassword
    \/ SubmitRegister

RegisterSpec == Init /\ [][RegisterNext]_vars


(***************************************************************************)
(* client/src/pages/EntityView.tsx : inline edits of one entity            *)
(***************************************************************************)
MaxSaves == 2                        \* inline edits saved in a run
ViewId == 1                          \* params.id of the page
EditValues == {"orc", "0"}           \* what the user types into a field

\* the entity the page shows: E1 as user 1 created it
ViewEntity == Spread(E1, [id |-> ViewId, userId |-> LoggedIn[Browser], created |-> 1])

ViewInit ==
    /\ journals = <<>>
    /\ entities = MapSet(<<>>, ViewId, ViewEntity)
    /\ journalId = 1
    /\ entityId = ViewId + 1
    /\ users = Users
    /\ sessionUser = [c \in Sessions |-> IF c \in DOMAIN LoggedIn THEN LoggedIn[c] ELSE NoUser]
    /\ destroyed = {}
    /\ now = 2
    /\ received = 0
    /\ req = [s \in Slots |-> Idle]
    /\ ClientInit

\* the EditableFields of the page of an npc: the name, and keys of
\* entityTemplates.npc that are shown as plain fields
MainFields == {"name"}
PropertyFields == {"race", "class"}
FieldsOf == MainFields \cup PropertyFields
\* value={entity.properties[key]} of the field, as useState(value || "") and
\* the display take it: "" for a property the entity does not have
FieldValue(entity, field) ==
    IF field \in MainFields THEN entity[field]
    ELSE IF field \in DOMAIN entity.properties THEN entity.properties[field]
    ELSE ""

\* the query of the entity resolves (first load, or a refetch on focus or
\* remount); the EditableFields mount with useState(value || "") when the
\* entity is first there and keep their editValue afterwards
EntityQuery_fetch ==
    /\ entityQuery # getEntity(ViewId)
    /\ entityQuery' = getEntity(ViewId)
    /\ editValue' = IF editValue = <<>> /\ entityQuery' # {}
                    THEN [f \in FieldsOf |-> FieldValue(Fields(entityQuery'), f)]
                    ELSE editValue
    /\ UNCHANGED <<server, registration, editor, app, updateMutation, saves>>

\* handleFieldUpdate(field, value): the payload it hands to updateMutation.mutate
handleFieldUpdate(entity, field, value) ==
    IF field \in MainFields
    THEN [f \in {field} |-> value]
    ELSE [properties |-> Spread(entity.properties, [f \in {field} |-> value])]

\* EditableField.handleSave: onSave(editValue) calls handleFieldUpdate, and
\* updateMutation.mutate sends the PATCH
EditableField_handleSave(field, value) ==
    /\ saves < MaxSaves
    /\ entityQuery # {}
    /\ field \in DOMAIN editValue
    /\ editValue' = [editValue EXCEPT ![field] = value]
    /\ updateMutation' = Append(updateMutation,
                                handleFieldUpdate(Fields(entityQuery), field, value))
    /\ saves' = saves + 1
    /\ UNCHANGED <<server, registration, editor, app, entityQuery>>

\* the server handles the oldest PATCH /api/entities/:id on its way, sent by
\* the owner: updateEntity merges result.data over the stored record; then
\* onSuccess invalidates the queries under ["/api/entities"], which the key
\* [`/api/entities/${id}`] of the entity is not
UpdateMutation_settle ==
    /\ updateMutation # <<>>
    /\ LET body == Head(updateMutation) IN
       /\ insertEntitySchema_partial_success(body)
       /\ ~updateEntity_notFound(getEntity(ViewId))
       /\ entities' = MapSet(entities, ViewId,
                             updateEntity_record(getEntity(ViewId),
                                                 insertEntitySchema_data(body)))
    /\ updateMutation' = Tail(updateMutation)
    /\ UNCHANGED <<journals, journalId, entityId, auth, now, received, req,
                   registration, editor, app, entityQuery, editValue, saves>>

ViewNext ==
    \/ EntityQuery_fetch
    \/ \E field \in FieldsOf, value \in EditValues :
          EditableField_handleSave(field, value)
    \/ UpdateMutation_settle

ViewSpec == ViewInit /\ [][ViewNext]_vars

(***************************************************************************)
(* Vocabulary of the properties                                            *)
(***************************************************************************)
JournalById == {"GET /api/journals/:id", "PATCH /api/journals/:id", "DELETE /api/journals/:id"}
EntityById == {"GET /api/entities/:id", "PATCH /api/entities/:id", "DELETE /api/entities/:id"}
ById == JournalById \cup EntityById
Patches == {"PATCH /api/journals/:id", "PATCH /api/entities/:id"}
Deletes == {"DELETE /api/journals/:id", "DELETE /api/entities/:id"}
Posts == {"POST /api/journals", "POST /api/entities"}
Lists == {"GET /api/journals", "GET /api/entities"}
Gets == {"GET /api/journals/:id", "GET /api/entities/:id"}

\* the map a by-id request addresses
MapOf(kind) == IF kind \in JournalById THEN journals ELSE entities

\* the body of a PATCH passes the partial schema
PatchBodyValid(r) ==
    IF r.kind = "PATCH /api/journals/:id"
    THEN \A k \in (DOMAIN r.body) \cap JournalKeys : JournalFieldOk(k, r.body[k])
    ELSE \A k \in (DOMAIN r.body) \cap EntityKeys : EntityFieldOk(k, r.body[k])

\* this step is the arrival of a request in slot s
Arrived(s) == req[s].pc = "idle" /\ req'[s].pc # "idle"
\* this step is a step of the handler of the request in slot s
Stepped(s) == InFlight(req[s]) /\ req'[s].pc # req[s].pc

\* the request r, by a logged-in user, addresses a record of another user
ForeignTarget(r) ==
    /\ r.kind \in ById
    /\ r.user # NoUser
    /\ r.id \in DOMAIN MapOf(r.kind)
    /\ MapOf(r.kind)[r.id].userId # r.user

\* the request r, by a logged-in user, addresses an id that is not in the store
AbsentTarget(r) ==
    /\ r.kind \in Patches \cup Deletes
    /\ r.user # NoUser
    /\ r.id \notin DOMAIN MapOf(r.kind)

(***************************************************************************)
(* C1                                                                      *)
(***************************************************************************)
\* C1, as stated: a GET, PATCH or DELETE by id that a logged-in user issues
\* for a record owned by another user is answered 403 and nothing else.
C1_AsStated ==
    [][\A s \in Slots :
          (Arrived(s) /\ ForeignTarget(req'[s]) /\ req'[s].pc = "done")
              => req'[s].status = 403]_vars

\* C1, amended: such a request leaves the store as it is; a PATCH whose body
\* fails validation is answered 400 on arrival, every other such request reads
\* the record, finds the other owner and is answered 403 (a GET at once, a
\* PATCH or DELETE by its next step).
C1_ForeignRecord ==
    [][\A s \in Slots :
          /\ (Arrived(s) /\ ForeignTarget(req'[s])) =>
                /\ store' = store
                /\ IF req'[s].kind \in Patches /\ ~PatchBodyValid(req'[s])
                   THEN req'[s].pc = "done" /\ req'[s].status = 400
                   ELSE IF req'[s].kind \in Gets
                   THEN req'[s].pc = "done" /\ req'[s].status = 403
                   ELSE /\ req'[s].pc = "gate"
                        /\ req'[s].rec = {MapOf(req'[s].kind)[req'[s].id]}
          /\ (/\ Stepped(s)
              /\ req[s].kind \in Patches \cup Deletes
              /\ req[s].pc = "gate"
              /\ \E x \in req[s].rec : x.userId # req[s].user) =>
                /\ req'[s].pc = "done"
                /\ req'[s].status = 403
                /\ store' = store]_vars

\* a PATCH with a valid body for a record of another user has been answered 403
C1_Witness ==
    \E s \in Slots :
        /\ req[s].pc = "done" /\ req[s].status = 403
        /\ req[s].kind = "PATCH /api/journals/:id"
        /\ req[s].body = NoBody
        /\ req[s].id \in DOMAIN journals
        /\ journals[req[s].id].userId # req[s].user

(***************************************************************************)
(* C2                                                                      *)
(***************************************************************************)
\* C2: the list a GET /api/journals or GET /api/entities request of user A
\* returns is exactly the set of stored records owned by A (of the requested
\* type, when ?type is given).
C2_ListsOwnRecords ==
    [][\A s \in Slots :
          (Arrived(s) /\ req'[s].kind \in Lists /\ req'[s].status = 200) =>
              req'[s].resp =
                  IF req'[s].kind = "GET /api/journals"
                  THEN {j \in MapValues(journals) : j.userId = req'[s].user}
                  ELSE {e \in MapValues(entities) :
                           /\ e.userId = req'[s].user
                           /\ (req'[s].type = "" \/ e.type = req'[s].type)}]_vars

(***************************************************************************)
(* C3                                                                      *)
(***************************************************************************)
\* C3: no step of DELETE /api/user issued by user A removes or changes a
\* journal or an entity owned by another user.
C3_DeleteUserKeepsOthers ==
    [][\A s \in Slots :
          (Stepped(s) /\ req[s].kind = "DELETE /api/user") =>
              /\ \A i \in DOMAIN journals :
                    journals[i].userId # req[s].user =>
                        (i \in DOMAIN journals' /\ journals'[i] = journals[i])
              /\ \A i \in DOMAIN entities :
                    entities[i].userId # req[s].user =>
                        (i \in DOMAIN entities' /\ entities'[i] = entities[i])]_vars


(***************************************************************************)
(* C4                                                                      *)
(***************************************************************************)
\* C4: the record a successful POST stores and returns carries the id of
\* the session's user as its owner id, whatever the body carried.
C4_OwnerIsSessionUser ==
    /\ [][\A s \in Slots :
            (Arrived(s) /\ req'[s].kind \in Posts /\ req'[s].status = 200) =>
                /\ sessionUser[req'[s].sess] # NoUser
                /\ \E r \in req'[s].resp :
                      /\ req'[s].resp = {r}
                      /\ "userId" \in DOMAIN r
                      /\ r.userId = sessionUser[req'[s].sess]
                      /\ IF req'[s].kind = "POST /api/journals"
                         THEN MapGet(journals', r.id) = {r}
                         ELSE MapGet(entities', r.id) = {r}]_vars
    /\ [](\A s \in Slots :
            (req[s].kind \in Posts /\ req[s].pc = "done" /\ req[s].status = 200) =>
                /\ req[s].resp # {}
                /\ \A r \in req[s].resp :
                      "userId" \in DOMAIN r /\ r.userId = req[s].user)

\* a journal was created by a body that named another user as its owner
C4_Witness ==
    \E s \in Slots :
        /\ req[s].kind = "POST /api/journals"
        /\ req[s].pc = "done" /\ req[s].status = 200
        /\ "userId" \in DOMAIN req[s].body
        /\ req[s].body.userId # req[s].user
        /\ \E r \in req[s].resp : r.userId = req[s].user

(***************************************************************************)
(* C5                                                                      *)
(***************************************************************************)
\* C5: a request that arrives without a logged-in session is answered 401
\* by its first step, which calls no storage operation and leaves the maps
\* and the id counters unchanged.
C5_UnauthenticatedIs401 ==
    [][\A s \in Slots :
          (Arrived(s) /\ sessionUser[req'[s].sess] = NoUser) =>
              /\ req'[s].pc = "done"
              /\ req'[s].status = 401
              /\ req'[s].calls = <<>>
              /\ store' = store]_vars

\* a well-formed POST without a session has been answered 401
C5_Witness ==
    \E s \in Slots :
        /\ req[s].kind = "POST /api/journals"
        /\ req[s].body = J1
        /\ req[s].pc = "done" /\ req[s].status = 401
        /\ sessionUser[req[s].sess] = NoUser

(***************************************************************************)
(* C6                                                                      *)
(***************************************************************************)
\* C6: when DELETE /api/user of user A, with no other request of A in flight
\* beside it, is answered 200, the store holds no journal and no entity owned
\* by A and A's session is terminated; a terminated session stays terminated
\* and every request that arrives with it is answered 401.
C6_AccountDeleted ==
    /\ [][\A s \in Slots :
            (/\ Stepped(s)
             /\ req[s].kind = "DELETE /api/user"
             /\ req'[s].pc = "done" /\ req'[s].status = 200
             /\ req'[s].alone) =>
                /\ \A i \in DOMAIN journals' : journals'[i].userId # req[s].user
                /\ \A i \in DOMAIN entities' : entities'[i].userId # req[s].user
                /\ sessionUser'[req[s].sess] = NoUser
                /\ req[s].sess \in destroyed']_vars
    /\ [](\A c \in destroyed : sessionUser[c] = NoUser)
    /\ [][destroyed \subseteq destroyed']_vars
    /\ [][\A s \in Slots :
            (Arrived(s) /\ req'[s].sess \in destroyed) =>
                (req'[s].pc = "done" /\ req'[s].status = 401)]_vars

\* user 1, the only user who ever logged in, created a journal and deleted
\* the account, and a later request with the old session got 401
C6_Witness ==
    /\ journalId > 1
    /\ journals = <<>>
    /\ sessionUser["s2"] = NoUser /\ "s2" \notin destroyed
    /\ "s1" \in destroyed
    /\ \E s \in Slots :
          /\ req[s].sess = "s1"
          /\ req[s].kind = "GET /api/journals"
          /\ req[s].pc = "done" /\ req[s].status = 401

(***************************************************************************)
(* C7                                                                      *)
(***************************************************************************)
\* C7: getEntities(t, u) returns exactly the entities of type t owned by u;
\* an absent filter ("" for the type, NoUser for the owner) does not restrict.
C7_GetEntitiesFilters ==
    \A t \in entityTypes \cup {""}, u \in Users \cup {NoUser} :
        getEntities(t, u) =
            {e \in MapValues(entities) :
                /\ (t = "" \/ e.type = t)
                /\ (u = NoUser \/ e.userId = u)}


(***************************************************************************)
(* C8                                                                      *)
(***************************************************************************)
\* C8, as stated: a PATCH or DELETE by id that a logged-in user issues for an
\* id that is not in the store is answered 404 and nothing else.
C8_AsStated ==
    [][\A s \in Slots :
          (Arrived(s) /\ AbsentTarget(req'[s]) /\ req'[s].pc = "done")
              => req'[s].status = 404]_vars

\* C8, amended: such a request leaves the store as it is; a PATCH whose body
\* fails validation is answered 400 on arrival, every other such request
\* reads nothing under the id and is answered 404 by its next step; and
\* updateJournal / updateEntity, finding nothing under the id, makes the
\* request end 404 without writing.
C8_AbsentIdIs404 ==
    [][\A s \in Slots :
          /\ (Arrived(s) /\ AbsentTarget(req'[s])) =>
                /\ store' = store
                /\ IF req'[s].kind \in Patches /\ ~PatchBodyValid(req'[s])
                   THEN req'[s].pc = "done" /\ req'[s].status = 400
                   ELSE req'[s].pc = "gate" /\ req'[s].rec = {}
          /\ (/\ Stepped(s)
              /\ req[s].kind \in Patches \cup Deletes
              /\ req[s].pc = "gate"
              /\ req[s].rec = {}) =>
                /\ req'[s].pc = "done"
                /\ req'[s].status = 404
                /\ store' = store
          /\ (/\ Stepped(s)
              /\ req[s].kind \in Patches
              /\ req[s].pc = "update"
              /\ req[s].existing = {}) =>
                /\ req'[s].pc = "done"
                /\ req'[s].status = 404
                /\ store' = store]_vars

\* a DELETE of an id that is not in the store has been answered 404
C8_Witness ==
    \E s \in Slots :
        /\ req[s].kind = "DELETE /api/entities/:id"
        /\ req[s].pc = "done" /\ req[s].status = 404
        /\ req[s].id \notin DOMAIN entities

(***************************************************************************)
(* C9                                                                      *)
(***************************************************************************)
\* C9: a call of deleteJournal(id) or deleteEntity(id) with an id that is not
\* in the map does not complete as a success: the request that makes the call
\* does not go on to its success response.
C9_DeleteSignalsNotFound ==
    [][\A s \in Slots :
          (/\ Stepped(s)
           /\ req[s].kind \in Deletes
           /\ req[s].pc = "gate"
           /\ req[s].id \notin DOMAIN MapOf(req[s].kind))
              => req'[s].status # 204]_vars

(***************************************************************************)
(* C10                                                                     *)
(***************************************************************************)
\* C10: right after a create, a get of the returned id finds the returned
\* record; its client-supplied fields are the submitted ones and its id, owner
\* id and creation timestamp are the ones create assigned.  Every record is
\* stored under its own id, and a GET by id of a record the caller owns is
\* answered 200 with the record stored under that id.
C10_CreateThenGet ==
    /\ [][\A s \in Slots :
            (Arrived(s) /\ req'[s].kind \in Posts /\ req'[s].status = 200) =>
                \E r \in req'[s].resp :
                    /\ req'[s].resp = {r}
                    /\ r.userId = req'[s].user
                    /\ r.created = now
                    /\ IF req'[s].kind = "POST /api/journals"
                       THEN /\ r.id = journalId
                            /\ MapGet(journals', r.id) = {r}
                            /\ DOMAIN r = JournalKeys \cup {"id", "userId", "created"}
                            /\ \A k \in JournalKeys : r[k] = req'[s].body[k]
                       ELSE /\ r.id = entityId
                            /\ MapGet(entities', r.id) = {r}
                            /\ DOMAIN r = EntityKeys \cup {"id", "userId", "created"}
                            /\ \A k \in EntityKeys : r[k] = req'[s].body[k]]_vars
    /\ [][\A s \in Slots :
            (/\ Arrived(s)
             /\ req'[s].kind \in Gets
             /\ \E x \in MapGet(MapOf(req'[s].kind), req'[s].id) :
                    x.userId = req'[s].user) =>
                /\ req'[s].status = 200
                /\ req'[s].resp = MapGet(MapOf(req'[s].kind), req'[s].id)]_vars
    /\ [](/\ \A i \in DOMAIN journals : journals[i].id = i
          /\ \A i \in DOMAIN entities : entities[i].id = i)

\* the creator has read back the journal as it was created from body J1
C10_Witness ==
    \E s \in Slots :
        /\ req[s].kind = "GET /api/journals/:id"
        /\ req[s].pc = "done" /\ req[s].status = 200
        /\ req[s].resp = {[id |-> req[s].id, userId |-> req[s].user, created |-> 1,
                           title |-> J1.title, content |-> J1.content, tags |-> J1.tags]}

(***************************************************************************)
(* C11                                                                     *)
(***************************************************************************)
\* the stored record of a by-id request, as a set of at most one element
Target(r) == MapGet(MapOf(r.kind), r.id)

\* C11: a PATCH with an empty payload by the owner of the record, when no
\* other request changes the record while it runs, passes the gate, writes
\* back the record it read and is answered 200 with that record, so the store
\* is as it was before the request; merging the empty payload over a stored
\* record gives that record, any number of times.
C11_EmptyPatch ==
    /\ [][\A s \in Slots :
            /\ (/\ Arrived(s)
                /\ req'[s].kind \in Patches
                /\ req'[s].body = NoBody
                /\ \E x \in Target(req'[s]) : x.userId = req'[s].user) =>
                  /\ req'[s].pc = "gate"
                  /\ req'[s].data = NoBody
                  /\ req'[s].rec = Target(req'[s])
                  /\ store' = store
            /\ (/\ Stepped(s)
                /\ req[s].kind \in Patches
                /\ req[s].pc = "gate"
                /\ req[s].data = NoBody
                /\ req[s].rec = Target(req[s])
                /\ \E x \in req[s].rec : x.userId = req[s].user) =>
                  /\ req'[s].pc = "update"
                  /\ req'[s].existing = Target(req[s])
                  /\ store' = store
            /\ (/\ Stepped(s)
                /\ req[s].kind \in Patches
                /\ req[s].pc = "update"
                /\ req[s].data = NoBody
                /\ req[s].existing # {}
                /\ req[s].existing = Target(req[s])) =>
                  /\ req'[s].pc = "done"
                  /\ req'[s].status = 200
                  /\ req'[s].resp = req[s].existing
                  /\ store' = store]_vars
    /\ [](/\ \A i \in DOMAIN journals :
                /\ updateJournal_record({journals[i]}, insertJournalSchema_data(NoBody))
                       = journals[i]
                /\ updateJournal_record(
                       {updateJournal_record({journals[i]}, NoBody)}, NoBody)
                       = journals[i]
          /\ \A i \in DOMAIN entities :
                /\ updateEntity_record({entities[i]}, insertEntitySchema_data(NoBody))
                       = entities[i]
                /\ updateEntity_record(
                       {updateEntity_record({entities[i]}, NoBody)}, NoBody)
                       = entities[i])

\* the owner's empty PATCH of a journal has been answered 200 with the journal
\* as it is stored
C11_Witness ==
    \E s \in Slots :
        /\ req[s].kind = "PATCH /api/journals/:id"
        /\ req[s].body = NoBody
        /\ req[s].pc = "done" /\ req[s].status = 200
        /\ req[s].id \in DOMAIN journals
        /\ req[s].resp = {journals[req[s].id]}
        /\ journals[req[s].id].userId = req[s].user

(***************************************************************************)
(* C12                                                                     *)
(***************************************************************************)
\* the map a by-id request addresses, after the step
MapOfNext(kind) == IF kind \in JournalById THEN journals' ELSE entities'

\* C12: the record a successful update stores and returns has the fields of
\* the record r that updateJournal / updateEntity read and of the payload p;
\* every field of p holds p's value, whole (a `properties` map of p replaces
\* the old one), and every other field holds the value it had in r.
C12_ShallowMerge ==
    [][\A s \in Slots :
          (/\ Stepped(s)
           /\ req[s].kind \in Patches
           /\ req[s].pc = "update"
           /\ req[s].existing # {}) =>
              LET r == Fields(req[s].existing)
                  p == req[s].data
              IN /\ req'[s].pc = "done" /\ req'[s].status = 200
                 /\ req[s].id \in DOMAIN MapOfNext(req[s].kind)
                 /\ req'[s].resp = {MapOfNext(req[s].kind)[req[s].id]}
                 /\ LET new == MapOfNext(req[s].kind)[req[s].id]
                    IN /\ DOMAIN new = (DOMAIN r) \cup (DOMAIN p)
                       /\ \A k \in DOMAIN p : new[k] = p[k]
                       /\ \A k \in (DOMAIN r) \ (DOMAIN p) : new[k] = r[k]]_vars

\* an entity created from E1 has been patched: type and properties are the
\* payload's, the old `race` property is gone, the other fields are E1's
C12_Witness ==
    \E s \in Slots :
        /\ req[s].kind = "PATCH /api/entities/:id"
        /\ req[s].pc = "done" /\ req[s].status = 200
        /\ \E e \in req[s].resp :
              /\ e.type = "creature"
              /\ e.properties = [class |-> "bard"]
              /\ e.name = E1.name
              /\ e.description = E1.description
              /\ e.tags = E1.tags
              /\ MapGet(entities, req[s].id) = {e}

(***************************************************************************)
(* C13                                                                     *)
(***************************************************************************)
ServerAssigned == {"id", "userId", "created"}

\* C13: no step changes the id, the owner id or the creation timestamp of a
\* journal or an entity that is in the store before and after the step.
C13_ServerFieldsFixed ==
    [][/\ \A i \in (DOMAIN journals) \cap (DOMAIN journals') :
             \A k \in ServerAssigned : journals'[i][k] = journals[i][k]
       /\ \A i \in (DOMAIN entities) \cap (DOMAIN entities') :
             \A k \in ServerAssigned : entities'[i][k] = entities[i][k]]_vars

\* a PATCH whose body named another id, owner and timestamp has succeeded and
\* the record it returns and stores carries none of them
C13_Witness ==
    \E s \in Slots :
        /\ req[s].kind = "PATCH /api/journals/:id"
        /\ req[s].pc = "done" /\ req[s].status = 200
        /\ ServerAssigned \subseteq DOMAIN req[s].body
        /\ \E j \in req[s].resp :
              /\ MapGet(journals, req[s].id) = {j}
              /\ j.title = req[s].body.title
              /\ j.id # req[s].body.id
              /\ j.userId # req[s].body.userId
              /\ j.created # req[s].body.created

(***************************************************************************)
(* C14                                                                     *)
(***************************************************************************)
\* the body of a POST names every insertable field with a value of its type
PostBodyValid(r) ==
    IF r.kind = "POST /api/journals"
    THEN /\ JournalKeys \subseteq DOMAIN r.body
         /\ \A k \in JournalKeys : JournalFieldOk(k, r.body[k])
    ELSE /\ EntityKeys \subseteq DOMAIN r.body
         /\ \A k \in EntityKeys : EntityFieldOk(k, r.body[k])

\* the body of the POST or PATCH request r fails the schema of its route
BodyInvalid(r) ==
    \/ r.kind \in Posts /\ ~PostBodyValid(r)
    \/ r.kind \in Patches /\ ~PatchBodyValid(r)

\* C14: a POST or PATCH of a logged-in user whose body fails validation is
\* answered 400 by its first step, which calls no storage method and leaves
\* the maps and the id counters as they are, whatever is stored under the id.
C14_InvalidBodyIs400 ==
    [][\A s \in Slots :
          (Arrived(s) /\ req'[s].user # NoUser /\ BodyInvalid(req'[s])) =>
              /\ req'[s].pc = "done"
              /\ req'[s].status = 400
              /\ req'[s].calls = <<>>
              /\ store' = store]_vars

\* a PATCH with an invalid body for a stored entity of another user has been
\* answered 400
C14_Witness ==
    \E s \in Slots :
        /\ req[s].kind = "PATCH /api/entities/:id"
        /\ req[s].body = [type |-> "dragon"]
        /\ req[s].pc = "done" /\ req[s].status = 400
        /\ req[s].id \in DOMAIN entities
        /\ entities[req[s].id].userId # req[s].user

(***************************************************************************)
(* C15                                                                     *)
(***************************************************************************)
\* C15: every entity in the store has a type of entityTypes.
C15_EntityTypeInEnum ==
    \A i \in DOMAIN entities : entities[i].type \in entityTypes

\* an entity was created and then patched to another type, and a PATCH to a
\* type outside the enum has been turned away
C15_Witness ==
    /\ \E i \in DOMAIN entities : entities[i].type = "creature"
    /\ \E s \in Slots :
          /\ req[s].kind = "PATCH /api/entities/:id"
          /\ req[s].body = [type |-> "dragon"]
          /\ req[s].pc = "done" /\ req[s].status = 400
          /\ req[s].id \in DOMAIN entities

(***************************************************************************)
(* C16                                                                     *)
(***************************************************************************)
\* C16: the registration form passes validation, and the registration is
\* posted, exactly when the password has at least 8 characters, an uppercase
\* letter, a lowercase letter and a digit.
C16_PasswordPolicy ==
    /\ registerForm = "submitted" => insertUserSchema_password_rules(password)
    /\ registerForm = "invalid" => ~insertUserSchema_password_rules(password)

(***************************************************************************)
(* C17                                                                     *)
(***************************************************************************)
\* the lines of c that consist of one to six #, whitespace and text, by the
\* position of their first character
HeadingLines(c) ==
    {i \in 1..Len(c) :
        /\ LineStart(c, i)
        /\ LET e == LineEnd(c, i)
               h == Run(c, i, {"#"})
               w == Run(c, i + h, {" "})
           IN /\ h \in 1..6
              /\ w >= 1
              /\ \E k \in (i + h + w)..e : c[k] \notin Whitespace}

\* the title C17 describes: the trimmed text of the first such line
HeadingTitle(c) ==
    IF HeadingLines(c) = {} THEN Untitled
    ELSE LET i == SetMin(HeadingLines(c))
             h == Run(c, i, {"#"})
         IN trim(SubSeq(c, i + h, LineEnd(c, i)))

\* C17: the title derived on submit is the trimmed text of the first line of
\* the content that consists of one to six #, whitespace and text, and
\* "Untitled Entry" when the content has no such line.
C17_ExtractTitle ==
    \A t \in title : t = HeadingTitle(content)

(***************************************************************************)
(* C18                                                                     *)
(***************************************************************************)
\* C18: while the authentication state is loading every protected route
\* shows the loading state, with no user it redirects to /auth, and it renders
\* its component only with a user and not loading; when a logout succeeds
\* every protected route redirects to /auth.
C18_ProtectedRoute ==
    /\ [](\A path \in ProtectedPaths :
            /\ isLoading => ProtectedRoute(path) = "Loader2"
            /\ (~isLoading /\ user = {}) => ProtectedRoute(path) = "Redirect"
            /\ ProtectedRoute(path) = "Component" => (~isLoading /\ user # {}))
    /\ [][(logoutMutation.status = "pending" /\ logoutMutation'.status = "success") =>
             \A path \in ProtectedPaths : ProtectedRoute(path)' = "Redirect"]_vars

\* a user who was shown a protected page has logged out and the route of the
\* page redirects
C18_Witness ==
    /\ logoutMutation.status = "success"
    /\ location \in ProtectedPaths \ {"/"}
    /\ ProtectedRoute(location) = "Redirect"
    /\ sessionUser[Browser] = NoUser


(***************************************************************************)
(* C19                                                                     *)
(***************************************************************************)
\* storage.getJournal / storage.getEntity : the read of a PATCH or DELETE by id
ReadCall(kind) ==
    IF kind \in {"PATCH /api/journals/:id", "DELETE /api/journals/:id"}
    THEN "getJournal" ELSE "getEntity"

\* storage.updateX / storage.deleteX : the mutating call of a PATCH or DELETE by id
MutatingCall(kind) ==
    CASE kind = "PATCH /api/journals/:id" -> "updateJournal"
      [] kind = "PATCH /api/entities/:id" -> "updateEntity"
      [] kind = "DELETE /api/journals/:id" -> "deleteJournal"
      [] OTHER -> "deleteEntity"

\* C19: in every PATCH and DELETE by id the mutating storage call (updateX,
\* deleteX) is made only after the read of the same request found the record
\* present and owned by the session user: at the step that passes the 404 and
\* 403 checks the request has made its read and nothing else, the mutating
\* call is appended exactly when the record read is there and its userId is
\* the session user's, and otherwise the request is answered 404 or 403 by
\* the gate with no further call and the maps unchanged.
C19_ReadBeforeWrite ==
    [][\A s \in Slots :
          (req[s].kind \in Patches \cup Deletes /\ req[s].pc = "gate"
             /\ req'[s].pc # "gate")
          => LET r == req[s]
                 owned == r.rec # {} /\ \A record \in r.rec : record.userId = r.user
             IN /\ r.calls = <<ReadCall(r.kind)>>
                /\ \A record \in r.rec : record.id = r.id
                /\ IF owned
                   THEN /\ req'[s].calls = <<ReadCall(r.kind), MutatingCall(r.kind)>>
                        /\ ~(req'[s].pc = "done" /\ req'[s].status \in {403, 404})
                   ELSE /\ req'[s].calls = r.calls
                        /\ req'[s].pc = "done"
                        /\ req'[s].status = IF r.rec = {} THEN 404 ELSE 403
                        /\ store' = store]_vars

\* a DELETE of an entity whose read found the caller's own record has called
\* getEntity, then deleteEntity, and is answered 204 with the record gone
C19_Witness ==
    \E s \in Slots :
        /\ req[s].kind = "DELETE /api/entities/:id" /\ req[s].pc = "done"
        /\ req[s].status = 204
        /\ req[s].calls = <<"getEntity", "deleteEntity">>
        /\ MapGet(entities, req[s].id) = {}


(***************************************************************************)
(* C20                                                                     *)
(***************************************************************************)
\* C20: updateJournal and updateEntity are atomic: while an update is between
\* its read of the existing record and its write, no other operation's write
\* or delete of the same id takes effect, and the record the update writes is
\* the payload merged over the record that is stored at the moment of the
\* write.
C20_UpdateIsAtomic ==
    [][\A s \in Slots :
          (req[s].kind \in Patches /\ req[s].pc = "update") =>
              IF req'[s].pc = "update"
              THEN MapGet(MapOfNext(req[s].kind), req[s].id) = Target(req[s])
              ELSE /\ req[s].existing = Target(req[s])
                   /\ req'[s].status = 200 =>
                         \E x \in Target(req[s]) :
                             MapGet(MapOfNext(req[s].kind), req[s].id)
                                = {Spread(x, req[s].data)}]_vars

(***************************************************************************)
(* C21                                                                     *)
(***************************************************************************)
Writes == Posts \cup Patches \cup Deletes

\* the map a write request addresses
MapName(kind) ==
    IF kind \in JournalById \cup {"POST /api/journals"} THEN "journals" ELSE "entities"

\* the record a write request addresses: the map and the id (of a create, the
\* id of the record it returned)
Key(r) ==
    <<MapName(r.kind),
      IF r.kind \in Posts THEN (IF r.resp = {} THEN 0 ELSE Fields(r.resp).id) ELSE r.id>>

\* the step leaves every record unchanged except the one under `key`
OthersKept(key) ==
    /\ \A i \in (DOMAIN journals) \cup (DOMAIN journals') :
          <<"journals", i>> # key => MapGet(journals', i) = MapGet(journals, i)
    /\ \A i \in (DOMAIN entities) \cup (DOMAIN entities') :
          <<"entities", i>> # key => MapGet(entities', i) = MapGet(entities, i)

DeleteUserCalls == <<"getJournals", "deleteJournal*", "getEntities", "deleteEntity*">>

\* C22: in DELETE /api/user the session is terminated only after the delete
\* call for every journal and every entity fetched for the caller has
\* completed.  A session ends only in the logout step of a DELETE /api/user
\* request of that session which has made all four storage calls; the step
\* that makes the delete calls leaves none of the fetched records in the map;
\* and a step of the request that does not end in the answer 200 (an earlier
\* step, or one that ends in a failure) leaves every session as it is.
C22_LogoutAfterDeletes ==
    /\ [][\A c \in Sessions :
            (sessionUser[c] # NoUser /\ sessionUser'[c] = NoUser) =>
                \E s \in Slots :
                    /\ req[s].kind = "DELETE /api/user"
                    /\ req[s].sess = c
                    /\ req[s].pc = "entitiesDeleted"
                    /\ req[s].calls = DeleteUserCalls
                    /\ req'[s].pc = "done" /\ req'[s].status = 200]_vars
    /\ [][\A s \in Slots :
            (req[s].kind = "DELETE /api/user" /\ Stepped(s)) =>
                /\ req[s].pc = "journals" =>
                      /\ \A j \in req[s].list : j.id \notin DOMAIN journals'
                      /\ req'[s].pc = "journalsDeleted"
                /\ req[s].pc = "entities" =>
                      /\ \A e \in req[s].list : e.id \notin DOMAIN entities'
                      /\ req'[s].pc = "entitiesDeleted"
                /\ ~(req'[s].pc = "done" /\ req'[s].status = 200) =>
                      auth' = auth]_vars

\* an account deletion that found a journal and an entity to delete has made
\* its four storage calls and ended the session
C22_Witness ==
    \E s \in Slots :
        /\ req[s].kind = "DELETE /api/user"
        /\ req[s].pc = "done" /\ req[s].status = 200
        /\ req[s].calls = DeleteUserCalls
        /\ sessionUser[req[s].sess] = NoUser
        /\ journalId > 1 /\ journals = <<>>
        /\ entityId > 1 /\ entities = <<>>

(***************************************************************************)
(* C23                                                                     *)
(***************************************************************************)
\* C23: every authenticated DELETE /api/user request receives its response:
\* the step that ends the request sends 200 when the deletions and the
\* session termination succeeded and 500 when a step failed, a failure that
\* the callback of req.logout reports included; the request never ends with
\* no response sent, and the records deleted before a failure stay deleted.
C23_DeleteUserAnswered ==
    [][\A s \in Slots :
          (/\ req[s].kind = "DELETE /api/user"
           /\ req[s].pc = "entitiesDeleted"
           /\ Stepped(s)) =>
              /\ req'[s].pc = "done"
              /\ req'[s].status \in {200, 500}
              /\ req'[s].status = 200 <=> sessionUser'[req[s].sess] = NoUser
              /\ store' = store]_vars

(***************************************************************************)
(* C24                                                                     *)
(***************************************************************************)
\* C24: when DELETE /api/user is answered 200 the row of the caller is gone
\* from the users table, and a session is established only for a user whose
\* row is in the table, so the deleted account can no longer log in.
C24_UserRemoved ==
    /\ [][\A s \in Slots :
            (/\ Stepped(s)
             /\ req[s].kind = "DELETE /api/user"
             /\ req'[s].pc = "done" /\ req'[s].status = 200) =>
                req[s].user \notin users']_vars
    /\ [][\A c \in Sessions :
            (sessionUser'[c] # sessionUser[c] /\ sessionUser'[c] # NoUser) =>
                sessionUser'[c] \in users']_vars

(***************************************************************************)
(* C25                                                                     *)
(***************************************************************************)
\* C25: a journal create whose request supplies no title succeeds: a POST
\* /api/journals of a logged-in user whose body has no `title` and is
\* well-formed otherwise is answered 200 and the journal is stored with a
\* title.
C25_CreateWithoutTitle ==
    [][\A s \in Slots :
          (/\ Arrived(s)
           /\ req'[s].kind = "POST /api/journals"
           /\ req'[s].user # NoUser
           /\ "title" \notin DOMAIN req'[s].body
           /\ insertJournalSchema_success(
                  Spread(req'[s].body, [title |-> "Untitled Entry"]))) =>
              /\ req'[s].status = 200
              /\ \E r \in req'[s].resp :
                    "title" \in DOMAIN r /\ MapGet(journals', r.id) = {r}]_vars

(***************************************************************************)
(* C26                                                                     *)
(***************************************************************************)
\* C26: ids are never reused and a deleted record never comes back.  The ids
\* below a counter are the ids that create has given out; one of them that
\* is not in the map has been deleted, and it is not in the map after any
\* step: no create stores a record under it and no PATCH writes it back.
C26_DeletedStaysDeleted ==
    [][/\ \A i \in 1..(journalId - 1) :
             i \notin DOMAIN journals => i \notin DOMAIN journals'
       /\ \A i \in 1..(entityId - 1) :
             i \notin DOMAIN entities => i \notin DOMAIN entities']_vars

(***************************************************************************)
(* C27                                                                     *)
(***************************************************************************)
\* C27: a successful create, PATCH or DELETE of one journal or entity leaves
\* every other record unchanged.  The step that stores, writes or deletes the
\* record changes no other entry of its map, leaves the other map and the
\* other map's id counter as they are, and a PATCH or DELETE leaves both
\* counters; after the DELETE of an entity the entities whose properties
\* hold its id, and every journal, are exactly as they were.
C27_FrameEffect ==
    [][\A s \in Slots :
          LET done == req'[s]
              journalOp == MapName(done.kind) = "journals"
          IN (/\ Arrived(s) \/ Stepped(s)
              /\ done.pc = "done"
              /\ \/ done.kind \in Posts \cup Patches /\ done.status = 200
                 \/ done.kind \in Deletes /\ done.status = 204) =>
                /\ IF journalOp
                   THEN /\ entities' = entities /\ entityId' = entityId
                        /\ \A i \in DOMAIN journals :
                              i # Key(done)[2] => MapGet(journals', i) = {journals[i]}
                        /\ DOMAIN journals' \subseteq DOMAIN journals \cup {Key(done)[2]}
                   ELSE /\ journals' = journals /\ journalId' = journalId
                        /\ \A i \in DOMAIN entities :
                              i # Key(done)[2] => MapGet(entities', i) = {entities[i]}
                        /\ DOMAIN entities' \subseteq DOMAIN entities \cup {Key(done)[2]}
                /\ done.kind \notin Posts =>
                      journalId' = journalId /\ entityId' = entityId]_vars

\* entity 2 has been deleted, and entity 1, whose `organization` is 2, is
\* still stored as it was created
C27_Witness ==
    \E s \in Slots :
        /\ req[s].kind = "DELETE /api/entities/:id"
        /\ req[s].pc = "done" /\ req[s].status = 204
        /\ req[s].id = 2
        /\ 2 \notin DOMAIN entities
        /\ 1 \in DOMAIN entities
        /\ entities[1].properties.organization = IdString(req[s].id)
        /\ \A k \in EntityKeys : entities[1][k] = E1[k]

(***************************************************************************)
(* C28                                                                     *)
(***************************************************************************)
\* C28: when DELETE /api/user of user A is answered 200, the store holds no
\* journal and no entity owned by A, whatever requests of A ran beside it.
C28_NothingLeftBehind ==
    [][\A s \in Slots :
          (/\ Stepped(s)
           /\ req[s].kind = "DELETE /api/user"
           /\ req'[s].pc = "done" /\ req'[s].status = 200) =>
              /\ \A i \in DOMAIN journals' : journals'[i].userId # req[s].user
              /\ \A i \in DOMAIN entities' : entities'[i].userId # req[s].user]_vars

(***************************************************************************)
(* C29                                                                     *)
(***************************************************************************)
\* C29: when the account deletion of the client succeeds, the client is on
\* /auth with no user in its auth state; and as long as no login has
\* succeeded since, the auth state holds no user and no protected route
\* renders its component.
C29_DeletedClientStaysOut ==
    /\ [][(deleteMutation.status = "pending" /\ deleteMutation'.status = "success") =>
             (location' = "/auth" /\ userQuery'.data = {})]_vars
    /\ []((deleteMutation.status = "success" /\ sessionUser[Browser] = NoUser) =>
             /\ user = {}
             /\ location \in ProtectedPaths => ProtectedRoute(location) # "Component")

(***************************************************************************)
(* C30                                                                     *)
(***************************************************************************)
\* C30: once every inline edit saved on the entity has been stored, each
\* field of the stored entity holds the value last saved in it, and a field
\* that was never edited holds the value it had: the stored value of every
\* field is the editValue of that field.
C30_EditsKept ==
    (saves > 0 /\ updateMutation = <<>>) =>
        \E e \in getEntity(ViewId) :
            \A f \in DOMAIN editValue : FieldValue(e, f) = editValue[f]

====
